---- MODULE Spec2Model ----
(***************************************************************************)
(* Model of the ISO 8601 parser (src/src/parse.rs) and of the calendar     *)
(* compounds YearMonth / YearMonthDay (src/src/cal/compounds.rs).          *)
(*                                                                         *)
(* Text is a sequence of characters, a character a one-character string.   *)
(* Every function of the parser is an operator computed the way the code   *)
(* computes it; a call is an action that records the function called, its  *)
(* argument and what it returned.  A call that ends in a panic (an unwrap  *)
(* of None / Err) returns the outcome "Panic".                             *)
(***************************************************************************)
EXTENDS Integers, Sequences, FiniteSets, TLC

VARIABLES op, input, arg, result, handed

vars == <<op, input, arg, result, handed>>

(***************************************************************************)
(* Characters.                                                             *)
(***************************************************************************)
DigitChars == <<"0", "1", "2", "3", "4", "5", "6", "7", "8", "9">>

AsciiDigits == {DigitChars[k] : k \in 1..10}

\* A decimal digit outside ASCII (ARABIC-INDIC DIGIT THREE, general category Nd).
ArabicThree == "U+0663"

\* The characters the regex class \d matches: the regex crate's Perl classes
\* are Unicode classes, \d is \p{Nd}.
UnicodeNd == AsciiDigits \cup {ArabicThree}

NewLine == "\n"

DigitVal(ch) == CHOOSE k \in 0..9 : DigitChars[k + 1] = ch

(***************************************************************************)
(* Regular expressions, as the regex crate matches them: a backtracking    *)
(* (leftmost-first) match, greedy repetition, numbered capture groups.     *)
(* A group is a pair <<first, past>> of positions, <<0, 0>> when it did    *)
(* not take part in the match.                                             *)
(***************************************************************************)
Class(S)    == [t |-> "set", neg |-> FALSE, cs |-> S]

NegClass(S) == [t |-> "set", neg |-> TRUE, cs |-> S]

Lit(ch)     == Class({ch})

Cat(rs)     == [t |-> "cat", rs |-> rs]

Opt(r)      == [t |-> "opt", r |-> r]

\* r{min,max}, greedy, r a character class
Repeat(r, min, max) == [t |-> "rep", r |-> r, min |-> min, max |-> max]

Alt(a, b)   == [t |-> "alt", a |-> a, b |-> b]

Grp(n, r)   == [t |-> "grp", n |-> n, r |-> r]

\* $ (no multi-line flag): the end of the text, nowhere else
EndOfText   == [t |-> "eot"]

\* the end of group n, which began at position from
GrpEnd(n, from) == [t |-> "end", n |-> n, from |-> from]

\* \d
Digit == Class(UnicodeNd)

\* . (no s flag): any character but the line feed
AnyChar == NegClass({NewLine})

\* r*: no upper count
Star(r) == Repeat(r, 0, 0 - 1)

\* r{n}
Rep(r, n) == Repeat(r, n, n)

\* r{1,n}
RepUpTo(r, n) == Repeat(r, 1, n)

NoGroups == [k \in 1..7 |-> <<0, 0>>]

NoMatch == [ok |-> FALSE, caps |-> NoGroups]

InClass(re, ch) == (ch \in re.cs) # re.neg

\* The first way, in the order a backtracking matcher tries them, of matching
\* the patterns of `todo` one after the other from position i of s: the groups
\* captured, c being those captured so far.
RECURSIVE M(_, _, _, _), MStar(_, _, _, _, _, _)
M(todo, s, i, c) ==
    IF Len(todo) = 0 THEN [ok |-> TRUE, caps |-> c]
    ELSE LET re   == todo[1]
             rest == Tail(todo)
         IN  CASE re.t = "set" ->
                    IF i <= Len(s) /\ InClass(re, s[i]) THEN M(rest, s, i + 1, c) ELSE NoMatch
               [] re.t = "cat" -> M(re.rs \o rest, s, i, c)
               [] re.t = "opt" ->
                    LET with == M(<< re.r >> \o rest, s, i, c)
                    IN  IF with.ok THEN with ELSE M(rest, s, i, c)
               [] re.t = "rep" ->
                    \* the longest run of the class from i, max characters at most
                    LET left  == Len(s) + 1 - i
                        most  == IF re.max < 0 \/ re.max > left THEN left ELSE re.max
                        run   == CHOOSE n \in 0..most :
                                     /\ \A j \in 0..(n - 1) : InClass(re.r, s[i + j])
                                     /\ n = most \/ ~InClass(re.r, s[i + n])
                    IN  IF run < re.min THEN NoMatch ELSE MStar(rest, s, i, run, re.min, c)
               [] re.t = "alt" ->
                    LET first == M(<< re.a >> \o rest, s, i, c)
                    IN  IF first.ok THEN first ELSE M(<< re.b >> \o rest, s, i, c)
               [] re.t = "grp" -> M(<< re.r, GrpEnd(re.n, i) >> \o rest, s, i, c)
               [] re.t = "end" -> M(rest, s, i, [c EXCEPT ![re.n] = << re.from, i >>])
               [] re.t = "eot" -> IF i = Len(s) + 1 THEN M(rest, s, i, c) ELSE NoMatch

\* After a greedy run of n characters from i: the rest from i + n, else from
\* one character less, and so on down to min characters.
MStar(rest, s, i, n, min, c) ==
    LET after == M(rest, s, i + n, c)
    IN  IF after.ok \/ n = min THEN after ELSE MStar(rest, s, i, n - 1, min, c)

\* Regex::is_match of a pattern that opens with ^ : the match starts at the
\* first character, nowhere else.
is_match(re, s) == M(<< re >>, s, 1, NoGroups).ok

\* Regex::captures: the groups of the leftmost-first match.
captures(re, s) == M(<< re >>, s, 1, NoGroups).caps

\* Captures::at(n): Some(text of group n) or None.
at(caps, s, n) ==
    IF caps[n] = <<0, 0>> THEN [some |-> FALSE, str |-> << >>]
    ELSE [some |-> TRUE, str |-> SubSeq(s, caps[n][1], caps[n][2] - 1)]

\* Option::unwrap_or
unwrap_or(o, dflt) == IF o.some THEN o.str ELSE dflt

(***************************************************************************)
(* split_iso_8601                                                          *)
(***************************************************************************)
\* ^([^T]*)T?(.*)$   (no flags: . stops at a line feed, $ is the end of the text)
split == Cat(<< Grp(1, Star(NegClass({"T"}))), Opt(Lit("T")),
                Grp(2, Star(AnyChar)), EndOfText >>)

\* Some((group 1, group 2)) when the pattern matches (caps.len() is 3, the
\* whole match and the two groups, so the inner test always passes), else None.
split_iso_8601(string) ==
    IF is_match(split, string)
    THEN LET caps == captures(split, string)
         IN  [kind |-> "Some",
              date_string |-> at(caps, string, 1).str,
              time_string |-> at(caps, string, 2).str]
    ELSE [kind |-> "None", date_string |-> << >>, time_string |-> << >>]

(***************************************************************************)
(* Calendar primitives the two files call into (cal::units, local).        *)
(***************************************************************************)
\* Year::is_leap_year: divisible by 4, not by 100 unless also by 400.
is_leap_year(year) ==
    IF year % 400 = 0 THEN TRUE
    ELSE IF year % 100 = 0 THEN FALSE
    ELSE year % 4 = 0

\* Month::days_in_month; a month is its number, January = 1 .. December = 12.
days_in_month(month, leap) ==
    CASE month = 2 -> IF leap THEN 29 ELSE 28
      [] month \in {4, 6, 9, 11} -> 30
      [] OTHER -> 31

(***************************************************************************)
(* cal/compounds.rs                                                        *)
(***************************************************************************)
\* YearMonth::day_count
day_count(self) == days_in_month(self.month, is_leap_year(self.year))

\* is_valid with the last day of the month left out.
is_valid_exclusive(self, leap) == self.day >= 1 /\ self.day < days_in_month(self.month, leap)

\* YearMonthDay::is_valid
is_valid(self, leap) == self.day >= 1 /\ self.day <= days_in_month(self.month, leap)

(***************************************************************************)
(* Values of the local and zoned types: Option as a record with a kind.    *)
(***************************************************************************)
None == [kind |-> "None"]

Panic == [kind |-> "Panic"]

Some(v) == [kind |-> "Some", val |-> v]

\* LocalDate::new / local::Date::ymd: the date, or None when the day is out
\* of range for the month and year.
LocalDate_new(year, month, day) ==
    LET date == [year |-> year, month |-> month, day |-> day]
    IN  IF is_valid(date, is_leap_year(year)) THEN Some(date) ELSE None

\* Days from 0000-01-01 to January 1 of year.
DaysBeforeYear(year) ==
    365 * year + ((year + 3) \div 4) - ((year + 99) \div 100) + ((year + 399) \div 400)

RECURSIVE DaysBeforeMonth(_, _)
DaysBeforeMonth(year, month) ==
    IF month = 1 THEN 0
    ELSE DaysBeforeMonth(year, month - 1) + days_in_month(month - 1, is_leap_year(year))

\* ISO weekday of the n-th day from 0000-01-01 (a Saturday): 1 = Monday .. 7 = Sunday.
WeekdayOfDays(n) == ((n + 5) % 7) + 1

\* 53 when January 1 is a Thursday, or a Wednesday in a leap year.
WeeksInYear(year) ==
    LET jan1 == WeekdayOfDays(DaysBeforeYear(year))
    IN  IF jan1 = 4 \/ (jan1 = 3 /\ is_leap_year(year)) THEN 53 ELSE 52

\* The date of the n-th day from 0000-01-01, a day of year `near` or of a
\* year next to it.
DateOfDays(n, near) ==
    LET year  == CHOOSE y \in (near - 1)..(near + 1) :
                     DaysBeforeYear(y) <= n /\ n < DaysBeforeYear(y + 1)
        rest  == n - DaysBeforeYear(year)
        month == CHOOSE m \in 1..12 :
                     /\ DaysBeforeMonth(year, m) <= rest
                     /\ rest < DaysBeforeMonth(year, m) + days_in_month(m, is_leap_year(year))
    IN  [year |-> year, month |-> month, day |-> rest - DaysBeforeMonth(year, month) + 1]

\* LocalDate::from_weekday: the date of ISO week `week`, weekday `weekday` of
\* `year`, or None when the week or the weekday is out of range.
LocalDate_from_weekday(year, week, weekday) ==
    IF week < 1 \/ week > WeeksInYear(year) \/ weekday < 1 \/ weekday > 7 THEN None
    ELSE LET jan4   == DaysBeforeYear(year) + 3
             monday == jan4 - (WeekdayOfDays(jan4) - 1)
         IN  Some(DateOfDays(monday + 7 * (week - 1) + (weekday - 1), year))

\* Month::from_one returns a Month, not an Option: a number outside 1..12
\* has no Month to return.
Month_from_one(n) == IF n \in 1..12 THEN [ok |-> TRUE, v |-> n] ELSE [ok |-> FALSE, v |-> 0]

(***************************************************************************)
(* str::parse::<iN>(): an optional sign, then one or more ASCII digits,    *)
(* the value within the type's range; Err otherwise.                       *)
(***************************************************************************)
RECURSIVE DecVal(_)
DecVal(s) == IF Len(s) = 0 THEN 0 ELSE 10 * DecVal(SubSeq(s, 1, Len(s) - 1)) + DigitVal(s[Len(s)])

Err == [ok |-> FALSE, v |-> 0]

\* The sign and digits of the text, before the range check.  (No text with
\* a leading + reaches it: the one field that can have one is trimmed first.)
str_parse_int(s) ==
    LET neg    == Len(s) > 0 /\ s[1] = "-"
        digits == IF Len(s) > 0 /\ s[1] \in {"-", "+"} THEN Tail(s) ELSE s
    IN  IF Len(digits) = 0 \/ \E k \in 1..Len(digits) : digits[k] \notin AsciiDigits
        THEN Err
        ELSE [ok |-> TRUE, v |-> IF neg THEN 0 - DecVal(digits) ELSE DecVal(digits)]

I8Max == 127

I16Max == 32767

I32Max == 2147483647

\* parse::<i8>() and parse::<i32>(): max is the type's largest value.
str_parse(s, max) ==
    LET r == str_parse_int(s)
    IN  IF r.ok /\ (r.v < 0 - max - 1 \/ r.v > max) THEN Err ELSE r

\* parse::<i64>(): the patterns hand it at most four digits, always in range.
str_parse_i64(s) == str_parse_int(s)

(***************************************************************************)
(* parse_iso_8601_date                                                     *)
(***************************************************************************)
\* (?x)^ (\d{4}) -W(\d{2}) -(\d{1}) $
week == Cat(<< Grp(1, Rep(Digit, 4)), Lit("-"), Lit("W"), Grp(2, Rep(Digit, 2)),
               Lit("-"), Grp(3, Rep(Digit, 1)), EndOfText >>)

\* ymd with the day group of the week pattern, (\d{1}).
ymd_one_digit_day ==
    Cat(<< Grp(1, Rep(Digit, 4)), Opt(Lit("-")), Grp(2, Rep(Digit, 2)),
           Opt(Lit("-")), Grp(3, Rep(Digit, 1)), EndOfText >>)

\* (?x)^ (\d{4}) -?(\d{2}) -?(\d{2}) $
ymd == Cat(<< Grp(1, Rep(Digit, 4)), Opt(Lit("-")), Grp(2, Rep(Digit, 2)),
              Opt(Lit("-")), Grp(3, Rep(Digit, 2)), EndOfText >>)

\* The ymd branch: every unwrap is a panic on None / Err.
parse_ymd(string) ==
    LET caps  == captures(ymd, string)
        year  == str_parse_i64(at(caps, string, 1).str)
        mnum  == str_parse(at(caps, string, 2).str, I8Max)
        day   == str_parse(at(caps, string, 3).str, I8Max)
    IN  IF ~year.ok \/ ~mnum.ok \/ ~day.ok THEN Panic
        ELSE IF ~Month_from_one(mnum.v).ok THEN Panic
        ELSE LET date == LocalDate_new(year.v, Month_from_one(mnum.v).v, day.v)
             IN  IF date.kind = "Some" THEN date ELSE Panic

\* The week branch.
parse_week(string) ==
    LET caps    == captures(week, string)
        year    == str_parse_i64(at(caps, string, 1).str)
        wk      == str_parse_i64(at(caps, string, 2).str)
        weekday == str_parse_i64(at(caps, string, 3).str)
    IN  IF ~year.ok \/ ~wk.ok \/ ~weekday.ok THEN Panic
        ELSE LET date == LocalDate_from_weekday(year.v, wk.v, weekday.v)
             IN  IF date.kind = "Some" THEN date ELSE Panic

parse_iso_8601_date(string) ==
    IF is_match(ymd, string) THEN parse_ymd(string)
    ELSE IF is_match(week, string) THEN parse_week(string)
    ELSE None

(***************************************************************************)
(* Time of day and time zone values (local, zoned).                        *)
(***************************************************************************)
\* LocalTime::hms_ms: the time, or None when a field is out of range.
LocalTime_hms_ms(a) ==
    IF /\ a.hour \in 0..23
       /\ a.minute \in 0..59
       /\ a.second \in 0..59
       /\ a.millisecond \in 0..999
    THEN Some(a)
    ELSE None

\* LocalTime::hms
LocalTime_hms(hour, minute, second) ==
    LocalTime_hms_ms([hour |-> hour, minute |-> minute, second |-> second, millisecond |-> 0])

\* LocalDateTime::from_date_time
LocalDateTime_from_date_time(date, time) == [date |-> date, time |-> time]

\* TimeZone::UTC
TimeZone_UTC == [zone |-> "UTC", seconds |-> 0]

\* TimeZone::of_hours_and_minutes: the fixed offset of hours * 3600 + minutes * 60 seconds.
TimeZone_of_hours_and_minutes(hours, minutes) ==
    [zone |-> "Fixed", seconds |-> hours * 60 * 60 + minutes * 60]

(***************************************************************************)
(* parse_iso_8601_tuple                                                    *)
(***************************************************************************)
\* (?x) ^ (\d{2}) :? (\d{2})? :?
\*        (?: (\d{2}) \.? ((?:\d{1,9}))? )?
\*        (?: (Z) | ([+-]\d\d)? :? (\d\d)? )? $
exp == Cat(<< Grp(1, Rep(Digit, 2)), Opt(Lit(":")),
              Opt(Grp(2, Rep(Digit, 2))), Opt(Lit(":")),
              Opt(Cat(<< Grp(3, Rep(Digit, 2)), Opt(Lit(".")),
                         Opt(Grp(4, RepUpTo(Digit, 9))) >>)),
              Opt(Alt(Grp(5, Lit("Z")),
                      Cat(<< Opt(Grp(6, Cat(<< Class({"+", "-"}), Rep(Digit, 1), Rep(Digit, 1) >>))),
                             Opt(Lit(":")),
                             Opt(Grp(7, Rep(Digit, 2))) >>))),
              EndOfText >>)

\* str::trim_matches(ch): the text without its leading and trailing ch.
RECURSIVE trim_matches(_, _)
trim_matches(s, ch) ==
    IF Len(s) > 0 /\ s[1] = ch THEN trim_matches(Tail(s), ch)
    ELSE IF Len(s) > 0 /\ s[Len(s)] = ch THEN trim_matches(SubSeq(s, 1, Len(s) - 1), ch)
    ELSE s

\* The zone hour: caps.at(6).unwrap_or("+00").trim_matches('+').parse::<i8>()
zone_hour(caps, string) ==
    str_parse(trim_matches(unwrap_or(at(caps, string, 6), <<"+", "0", "0">>), "+"), I8Max)

\* Some of the seven fields, None when the text does not match, a panic
\* when a field's parse is unwrapped on Err.
parse_iso_8601_tuple(string) ==
    IF is_match(exp, string)
    THEN LET caps == captures(exp, string)
             hh == str_parse(unwrap_or(at(caps, string, 1), <<"0", "0">>), I8Max)
             mm == str_parse(unwrap_or(at(caps, string, 2), <<"0", "0">>), I8Max)
             ss == str_parse(unwrap_or(at(caps, string, 3), <<"0", "0">>), I8Max)
             ms == str_parse(unwrap_or(at(caps, string, 4), <<"0", "0", "0">>), I32Max)
             zh == zone_hour(caps, string)
             zm == str_parse(unwrap_or(at(caps, string, 7), <<"0", "0">>), I8Max)
             z  == unwrap_or(at(caps, string, 5), <<"_">>)
         IN  IF ~hh.ok \/ ~mm.ok \/ ~ss.ok \/ ~ms.ok \/ ~zh.ok \/ ~zm.ok THEN Panic
             ELSE Some([hour |-> hh.v, minute |-> mm.v, second |-> ss.v,
                        millisecond |-> ms.v, zh |-> zh.v, zm |-> zm.v, z |-> z])
    ELSE None

\* `millisecond as i16`: the low 16 bits of the i32, as a signed value.
as_i16(v) == ((v + I16Max + 1) % (2 * (I16Max + 1))) - (I16Max + 1)

\* The arguments of LocalTime::hms_ms(hour, minute, second, millisecond as i16).
hms_ms_args(tup) ==
    [hour |-> tup.hour, minute |-> tup.minute, second |-> tup.second,
     millisecond |-> as_i16(tup.millisecond)]

(***************************************************************************)
(* parse_iso_8601_time                                                     *)
(***************************************************************************)
\* parse_iso_8601_time without its is_empty case.
parse_iso_8601_time_no_default(string) ==
    LET tup == parse_iso_8601_tuple(string)
    IN  CASE tup.kind = "Some" -> LocalTime_hms_ms(hms_ms_args(tup.val))
          [] tup.kind = "Panic" -> Panic
          [] OTHER -> None

parse_iso_8601_time(string) ==
    IF Len(string) = 0 THEN LocalTime_hms(0, 0, 0)
    ELSE LET tup == parse_iso_8601_tuple(string)
         IN  CASE tup.kind = "Some" -> LocalTime_hms_ms(hms_ms_args(tup.val))
               [] tup.kind = "Panic" -> Panic
               [] OTHER -> None

(***************************************************************************)
(* parse_iso_8601_zoned                                                    *)
(***************************************************************************)
\* The zone of a matched time: UTC for the Z marker, else the parsed offset.
time_zone(tup) ==
    IF tup.z = <<"Z">> THEN TimeZone_UTC
    ELSE TimeZone_of_hours_and_minutes(tup.zh, tup.zm)

\* The arm (Some(date), Some(tuple)).
zoned_date_time(date, tup) ==
    LET time == LocalTime_hms_ms(hms_ms_args(tup))
    IN  IF time.kind = "Some"
        THEN Some([local |-> LocalDateTime_from_date_time(date, time.val),
                   zone |-> time_zone(tup)])
        ELSE None

\* The arm (Some(date), None).
zoned_date_only(date) ==
    LET time == LocalTime_hms(0, 0, 0)
    IN  IF time.kind = "Some"
        THEN Some([local |-> LocalDateTime_from_date_time(date, time.val),
                   zone |-> TimeZone_UTC])
        ELSE None

parse_iso_8601_zoned(string) ==
    LET parts == split_iso_8601(string)
    IN  IF parts.kind # "Some" THEN Panic
        ELSE LET date == parse_iso_8601_date(parts.date_string)
                 tup  == parse_iso_8601_tuple(parts.time_string)
             IN  CASE date.kind = "Panic" \/ tup.kind = "Panic" -> Panic
                   [] date.kind = "Some" /\ tup.kind = "Some" -> zoned_date_time(date.val, tup.val)
                   [] date.kind = "Some" /\ tup.kind = "None" -> zoned_date_only(date.val)
                   [] OTHER -> None

(***************************************************************************)
(* parse_iso_8601                                                          *)
(***************************************************************************)
parse_iso_8601(string) ==
    LET parts == split_iso_8601(string)
    IN  IF parts.kind # "Some" THEN Panic
        ELSE LET date == parse_iso_8601_date(parts.date_string)
                 time == parse_iso_8601_time(parts.time_string)
             IN  CASE date.kind = "Panic" \/ time.kind = "Panic" -> Panic
                   [] date.kind = "Some" /\ time.kind = "Some" ->
                        Some(LocalDateTime_from_date_time(date.val, time.val))
                   [] OTHER -> None

(***************************************************************************)
(* The texts and values the functions are called with.                     *)
(***************************************************************************)
YearSpan == 3

MaxMonth == 13

MaxDay == 32

MaxWeek == 54

DateTextLen == 10

TimeTextLen == 5

SplitTextLen == 6

Years == {0, 1900, 2000, 2014, 2015, 9999} \cup (1985..(1985 + YearSpan))

\* Year is an i64: years before year 0 too.
CalYears == Years \cup {0 - 400, 0 - 100, 0 - 4, 0 - 1}

Fmt2(n) == << DigitChars[((n \div 10) % 10) + 1], DigitChars[(n % 10) + 1] >>

Fmt4(n) == Fmt2(n \div 100) \o Fmt2(n % 100)

\* A natural number in decimal, no padding.
RECURSIVE FmtNat(_)
FmtNat(n) == IF n < 10 THEN << DigitChars[n + 1] >> ELSE FmtNat(n \div 10) \o << DigitChars[(n % 10) + 1] >>

Dash(b) == IF b THEN << "-" >> ELSE << >>

\* YYYY[-]MM[-]DD
FormatYmd(a) == Fmt4(a.year) \o Dash(a.dash1) \o Fmt2(a.month) \o Dash(a.dash2) \o Fmt2(a.day)

\* YYYY-Wnn-d
FormatWeek(a) == Fmt4(a.year) \o << "-", "W" >> \o Fmt2(a.week) \o << "-" >> \o FmtNat(a.weekday)

\* Every text over the alphabet, up to the length.
Texts(alphabet, maxlen) == UNION { [1..n -> alphabet] : n \in 0..maxlen }

Date1985 == FormatYmd([year |-> 1985, month |-> 4, day |-> 12, dash1 |-> TRUE, dash2 |-> TRUE])

Week2014 == FormatWeek([year |-> 2014, week |-> 52, weekday |-> 4])

\* A text with one character put before it, after it, or in place of one of its own.
Spoiled(s, chars) ==
    { << ch >> \o s : ch \in chars } \cup { s \o << ch >> : ch \in chars }
        \cup { [s EXCEPT ![k] = ch] : k \in 1..Len(s), ch \in chars }

DateTexts ==
    Texts({"1", "-"}, DateTextLen)
        \cup Spoiled(Date1985, {"x", "T", " ", "1", NewLine, ArabicThree})
        \cup Spoiled(Week2014, {"x", "w", " ", "1", NewLine, ArabicThree})
        \cup { SubSeq(Week2014, 1, 8), Fmt4(2014) \o << "-", "3", "5", "9" >> }

TimeTexts == Texts({"0", ":", ".", "Z", "+"}, TimeTextLen)

SplitTexts == Texts({"a", "T", NewLine}, SplitTextLen)

\* The zone suffix: none, Z, or a signed offset with or without its colon.
NoZone == [form |-> "none", sign |-> "+", hh |-> 0, mm |-> 0, colon |-> FALSE]

Zones ==
    {NoZone, [NoZone EXCEPT !.form = "Z"]}
        \cup [form : {"offset"}, sign : {"+", "-"}, hh : {0, 5}, mm : {0, 30}, colon : BOOLEAN]

ZoneText(z) ==
    CASE z.form = "none" -> << >>
      [] z.form = "Z" -> << "Z" >>
      [] OTHER -> << z.sign >> \o Fmt2(z.hh) \o (IF z.colon THEN << ":" >> ELSE << >>) \o Fmt2(z.mm)

\* The hours, minutes and seconds, with and without colons, in and out of range.
HmsTexts ==
    { Fmt2(2) \o << ":" >> \o Fmt2(56) \o << ":" >> \o Fmt2(40),
      Fmt2(2) \o Fmt2(56) \o Fmt2(40),
      Fmt2(23) \o << ":" >> \o Fmt2(59) \o << ":" >> \o Fmt2(59),
      Fmt2(24) \o << ":" >> \o Fmt2(0) \o << ":" >> \o Fmt2(0) }

\* The value of the fraction digits; -1 for no fraction.
FracValues == {-1, 0, 1, 5, 123, 999, 1000, 32767, 32768, 40000, 65535, 65536, 999999999}

TimeParts == [hms : HmsTexts, frac : FracValues, zone : Zones]

TimeText(t) ==
    t.hms \o (IF t.frac = -1 THEN << >> ELSE << "." >> \o FmtNat(t.frac)) \o ZoneText(t.zone)

\* Time segments outside the time grammar.
BadTimeTexts ==
    LET hms == Fmt2(2) \o << ":" >> \o Fmt2(56) \o << ":" >> \o Fmt2(40)
    IN  { << "x" >>, << "x", "x" >>, hms \o << "x" >>, << " " >> \o hms,
          hms \o << "Z", "+" >> \o Fmt2(5) \o << ":" >> \o Fmt2(30),
          hms \o << "Z", "Z" >>, << "2" >>, << ":" >>, << "Z" >>,
          hms \o << "+", "5" >>, << "T" >> \o hms }

\* Time segments the pattern takes for more than the time grammar holds, and
\* one with a line feed.
MoreTimeTexts ==
    LET hms == Fmt2(2) \o << ":" >> \o Fmt2(56) \o << ":" >> \o Fmt2(40)
    IN  { hms \o << "1", "2", "3" >>, hms \o << "." >>, hms \o << ":" >>,
          hms \o << ".", "1", "2", "3" >> \o Fmt2(5) \o << ":" >> \o Fmt2(30),
          Fmt2(2) \o << ":", ":" >>, Fmt2(2) \o << NewLine >>, << NewLine >>,
          Fmt2(2) \o << ":", ArabicThree, "0" >> }

Date20141225 ==
    FormatYmd([year |-> 2014, month |-> 12, day |-> 25, dash1 |-> FALSE, dash2 |-> FALSE])

\* Date segments that parse: a calendar date with and without dashes, a week date.
GoodDates == { Date1985, Week2014 }

\* Those, one in neither form and one of an impossible day.
FullDates ==
    GoodDates \cup
        { Date20141225,
          Fmt4(2014) \o << "-", "1", "2", "-", "2", "x" >>,
          Fmt4(2014) \o << "-", "0", "2", "-", "3", "0" >> }

Seps == { << >>, << "T" >> }

Init ==
    /\ op = "idle"
    /\ input = << >>
    /\ arg = << >>
    /\ result = [kind |-> "Idle"]
    /\ handed = << >>

(***************************************************************************)
(* The calls.  `arg` keeps what the text was built from, `handed` the      *)
(* arguments the call passed to LocalTime::hms_ms, if it came to that.     *)
(***************************************************************************)
Call(name, a, text, res, h) ==
    /\ op' = name
    /\ arg' = a
    /\ input' = text
    /\ result' = res
    /\ handed' = h

Call_day_count ==
    /\ op = "idle"
    /\ \E y \in CalYears, m \in 1..12 :
           LET ym == [year |-> y, month |-> m]
           IN  Call("day_count", ym, << >>, day_count(ym), << >>)

Call_is_valid ==
    /\ op = "idle"
    /\ \E y \in CalYears, m \in 1..12, d \in ((0 - 1)..(MaxDay + 1)) \cup {0 - I8Max - 1, I8Max},
          leap \in BOOLEAN :
           LET date == [year |-> y, month |-> m, day |-> d]
           IN  Call("is_valid", [date |-> date, leap |-> leap], << >>, is_valid(date, leap), << >>)

Call_split_iso_8601 ==
    /\ op = "idle"
    /\ \E s \in SplitTexts \cup {Date1985, Date1985 \o << "T" >> \o Fmt2(2)} :
           Call("split", s, s, split_iso_8601(s), << >>)

Call_parse_date_ymd ==
    /\ op = "idle"
    /\ \E y \in Years, m \in 0..MaxMonth, d \in 0..MaxDay, dash1 \in BOOLEAN, dash2 \in BOOLEAN :
           LET a == [year |-> y, month |-> m, day |-> d, dash1 |-> dash1, dash2 |-> dash2]
           IN  Call("date_ymd", a, FormatYmd(a), parse_iso_8601_date(FormatYmd(a)), << >>)

Call_parse_date_week ==
    /\ op = "idle"
    /\ \E y \in Years, w \in 0..MaxWeek, d \in 0..9 :
           LET a == [year |-> y, week |-> w, weekday |-> d]
           IN  Call("date_week", a, FormatWeek(a), parse_iso_8601_date(FormatWeek(a)), << >>)

Call_parse_date_text ==
    /\ op = "idle"
    /\ \E s \in DateTexts : Call("date_text", s, s, parse_iso_8601_date(s), << >>)

\* What parse_iso_8601_time hands to LocalTime::hms_ms: nothing for the empty
\* text or when the tuple is not Some.
time_handed(string) ==
    LET tup == parse_iso_8601_tuple(string)
    IN  IF Len(string) > 0 /\ tup.kind = "Some" THEN << hms_ms_args(tup.val) >> ELSE << >>

\* What parse_iso_8601_zoned hands to LocalTime::hms_ms, in its first arm.
zoned_handed(string) ==
    LET parts == split_iso_8601(string)
        date  == parse_iso_8601_date(parts.date_string)
        tup   == parse_iso_8601_tuple(parts.time_string)
    IN  IF parts.kind = "Some" /\ date.kind = "Some" /\ tup.kind = "Some"
        THEN << hms_ms_args(tup.val) >>
        ELSE << >>

\* What parse_iso_8601 hands to it, through parse_iso_8601_time.
parse_handed(string) ==
    LET parts == split_iso_8601(string)
    IN  IF parts.kind = "Some" /\ parse_iso_8601_date(parts.date_string).kind # "Panic"
        THEN time_handed(parts.time_string)
        ELSE << >>

Call_parse_tuple ==
    /\ op = "idle"
    /\ \E s \in TimeTexts \cup BadTimeTexts \cup MoreTimeTexts :
           Call("tuple", s, s, parse_iso_8601_tuple(s), << >>)

Call_parse_time_text ==
    /\ op = "idle"
    /\ \E s \in BadTimeTexts \cup MoreTimeTexts \cup { << >> } :
           Call("time_text", s, s, parse_iso_8601_time(s), time_handed(s))

Call_parse_time_parts ==
    /\ op = "idle"
    /\ \E t \in TimeParts :
           Call("time_parts", t, TimeText(t), parse_iso_8601_time(TimeText(t)),
                time_handed(TimeText(t)))

Call_parse_zoned_parts ==
    /\ op = "idle"
    /\ \E d \in GoodDates, t \in TimeParts :
           LET s == d \o << "T" >> \o TimeText(t)
           IN  Call("zoned_parts", [date |-> d, time |-> t], s, parse_iso_8601_zoned(s),
                    zoned_handed(s))

Call_parse_zoned_text ==
    /\ op = "idle"
    /\ \E d \in FullDates, sep \in Seps, t \in BadTimeTexts \cup MoreTimeTexts \cup { << >> } :
           LET s == d \o sep \o t
           IN  Call("zoned_text", [date |-> d, sep |-> sep, time |-> t], s,
                    parse_iso_8601_zoned(s), zoned_handed(s))

Call_parse_text ==
    /\ op = "idle"
    /\ \E d \in FullDates, sep \in Seps, t \in BadTimeTexts \cup MoreTimeTexts \cup { << >> } :
           LET s == d \o sep \o t
           IN  Call("parse_text", [date |-> d, sep |-> sep, time |-> t], s, parse_iso_8601(s),
                    parse_handed(s))

NextCal == Call_day_count \/ Call_is_valid

NextDate == Call_parse_date_ymd \/ Call_parse_date_week \/ Call_parse_date_text

NextTime == Call_parse_tuple \/ Call_parse_time_text \/ Call_parse_time_parts

NextFull ==
    \/ Call_split_iso_8601
    \/ Call_parse_zoned_parts
    \/ Call_parse_zoned_text
    \/ Call_parse_text
    \/ Call_parse_time_parts
    \/ Call_parse_time_text

Next == NextCal \/ NextDate \/ NextTime \/ NextFull

\* The calendar compounds.
SpecCal == Init /\ [][NextCal]_vars

\* parse_iso_8601_date.
SpecDate == Init /\ [][NextDate]_vars

\* parse_iso_8601_tuple and parse_iso_8601_time.
SpecTime == Init /\ [][NextTime]_vars

\* split_iso_8601 and its callers, and parse_iso_8601_time.
SpecFull == Init /\ [][NextFull]_vars

Spec == Init /\ [][Next]_vars

(***************************************************************************)
(* What the specification says of the calendar and of the grammars, for    *)
(* the properties below to compare the code with.                          *)
(***************************************************************************)
GregorianTable == << 31, 28, 31, 30, 31, 30, 31, 31, 30, 31, 30, 31 >>

LeapYear(y) == y % 4 = 0 /\ (y % 100 # 0 \/ y % 400 = 0)

GregorianDays(y, m) == IF m = 2 /\ LeapYear(y) THEN 29 ELSE GregorianTable[m]

\* The fields name a day of the calendar.
PossibleYmd(a) == a.month \in 1..12 /\ a.day \in 1..GregorianDays(a.year, a.month)

\* The fields name a day of an ISO week of the year.
PossibleWeek(a) == a.week \in 1..WeeksInYear(a.year) /\ a.weekday \in 1..7

AsciiDigit == Class(AsciiDigits)

\* calendar-date = 4DIGIT ["-"] 2DIGIT ["-"] 2DIGIT
CalendarDateRule ==
    Cat(<< Rep(AsciiDigit, 4), Opt(Lit("-")), Rep(AsciiDigit, 2), Opt(Lit("-")),
           Rep(AsciiDigit, 2), EndOfText >>)

\* week-date = 4DIGIT "-W" 2DIGIT "-" 1DIGIT
WeekDateRule ==
    Cat(<< Rep(AsciiDigit, 4), Lit("-"), Lit("W"), Rep(AsciiDigit, 2), Lit("-"),
           Rep(AsciiDigit, 1), EndOfText >>)

\* zone = "Z" / ["+"/"-"] 2DIGIT [":"] [2DIGIT]
ZoneRule ==
    Alt(Lit("Z"),
        Cat(<< Opt(Class({"+", "-"})), Rep(AsciiDigit, 2), Opt(Lit(":")),
               Opt(Rep(AsciiDigit, 2)) >>))

\* time = 2DIGIT [":"] [2DIGIT [":"] [2DIGIT ["." 1*9DIGIT]]] [zone]
TimeRule ==
    Cat(<< Rep(AsciiDigit, 2), Opt(Lit(":")),
           Opt(Cat(<< Rep(AsciiDigit, 2), Opt(Lit(":")),
                      Opt(Cat(<< Rep(AsciiDigit, 2),
                                 Opt(Cat(<< Lit("."), RepUpTo(AsciiDigit, 9) >>)) >>)) >>)),
           Opt(ZoneRule), EndOfText >>)

InDateForm(s) == is_match(CalendarDateRule, s) \/ is_match(WeekDateRule, s)

InTimeLanguage(s) == is_match(TimeRule, s)

\* The index of the first T of the text, one past its end when it has none.
FirstT(s) == CHOOSE k \in 1..(Len(s) + 1) :
                 /\ k <= Len(s) => s[k] = "T"
                 /\ \A j \in 1..(k - 1) : s[j] # "T"

Midnight == [hour |-> 0, minute |-> 0, second |-> 0, millisecond |-> 0]

\* The dates the date segments of GoodDates and Date20141225 name.
NamedDate(d) ==
    IF d = Date1985 THEN [year |-> 1985, month |-> 4, day |-> 12]
    ELSE [year |-> 2014, month |-> 12, day |-> 25]

ParsingDates == GoodDates \cup {Date20141225}

\* The zone a suffix names, as seconds east of UTC.
NamedZone(z) ==
    CASE z.form = "Z" -> [zone |-> "UTC", seconds |-> 0]
      [] z.form = "none" -> [zone |-> "Fixed", seconds |-> 0]
      [] OTHER -> [zone |-> "Fixed",
                   seconds |-> (IF z.sign = "-" THEN 0 - 1 ELSE 1) * (z.hh * 3600 + z.mm * 60)]

(***************************************************************************)
(* The properties.                                                         *)
(***************************************************************************)

\* C1: a date segment in the calendar form or the week-date form whose fields
\* name no day of the calendar (month outside 1..12, day outside the month,
\* week or weekday out of range) makes parse_iso_8601_date return None: no
\* panic, no wrapped or clamped date.
C1_ImpossibleDateIsNone ==
    /\ (op = "date_ymd" /\ ~PossibleYmd(arg)) => result.kind = "None"
    /\ (op = "date_week" /\ ~PossibleWeek(arg)) => result.kind = "None"

\* C2: parse_iso_8601_zoned of a date segment that parses and a time segment
\* that is not empty and not in the time grammar is None; midnight in UTC is
\* for the empty time segment only.
C2_MalformedTimeIsNone ==
    (/\ op = "zoned_text"
     /\ arg.date \in ParsingDates
     /\ arg.sep = << "T" >>
     /\ Len(arg.time) > 0
     /\ ~InTimeLanguage(arg.time)) => result.kind = "None"

\* C3: split_iso_8601 returns Some for every text: the text before its first
\* T (all of it when it has none) and the text after that T.
C3_SplitAlwaysSucceeds ==
    op = "split" =>
        /\ result.kind = "Some"
        /\ result.date_string = SubSeq(input, 1, FirstT(input) - 1)
        /\ result.time_string = SubSeq(input, FirstT(input) + 1, Len(input))

\* C4: when parse_iso_8601_zoned returns a date-time for a well-formed time
\* segment, its zone is UTC for a Z suffix, the fixed offset of the sign,
\* hours and minutes of a signed suffix, and +00:00 for no suffix.
C4_ZoneAsWritten ==
    (op = "zoned_parts" /\ result.kind = "Some") => result.val.zone = NamedZone(arg.time.zone)

\* C5: a day of the calendar written as YYYY-MM-DD parses back to the same
\* year, month and day.
C5_RoundTrip ==
    (op = "date_ymd" /\ arg.dash1 /\ arg.dash2 /\ PossibleYmd(arg)) =>
        /\ result.kind = "Some"
        /\ result.val = [year |-> arg.year, month |-> arg.month, day |-> arg.day]

C5_Witness ==
    /\ op = "date_ymd"
    /\ input = Date1985
    /\ result = Some([year |-> 1985, month |-> 4, day |-> 12])

\* C6: parse_iso_8601_date returns None for every text that is in neither the
\* calendar form nor the week-date form in full, the empty text and the texts
\* that hold a date only as a prefix or a suffix among them.
C6_OutsideFormsIsNone ==
    (op = "date_text" /\ ~InDateForm(input)) => result.kind = "None"

\* C7: parse_iso_8601_time of the empty text is midnight, and
\* parse_iso_8601_zoned of a date segment that parses, alone or followed by a
\* bare T, is that date at midnight in UTC.
C7_EmptyMeansDefault ==
    /\ (op = "time_text" /\ input = << >>) => result = Some(Midnight)
    /\ (op = "zoned_text" /\ arg.date \in ParsingDates /\ arg.time = << >>) =>
           result = Some([local |-> [date |-> NamedDate(arg.date), time |-> Midnight],
                          zone |-> [zone |-> "UTC", seconds |-> 0]])

C7_Witness ==
    /\ op = "zoned_text"
    /\ input = Week2014 \o << "T" >>
    /\ result.kind = "Some"
    /\ result.val.local.time = Midnight

\* C8: day_count is the Gregorian table, February 29 days in leap years and
\* 28 in the others, and is_valid, given the year's leap status, is true
\* exactly for the days 1 .. day_count.
C8_DayCountAndValidity ==
    /\ op = "day_count" => result = GregorianDays(arg.year, arg.month)
    /\ (op = "is_valid" /\ arg.leap = LeapYear(arg.date.year)) =>
           result = (1 <= arg.date.day
                        /\ arg.date.day <= GregorianDays(arg.date.year, arg.date.month))

C8_Witness ==
    /\ op = "is_valid"
    /\ arg = [date |-> [year |-> 2000, month |-> 2, day |-> 29], leap |-> TRUE]
    /\ result = TRUE

\* C9: parse_iso_8601_tuple returns Some for exactly the texts of the `time`
\* rule of the grammar, and rejects every other text.
C9_TupleLanguageIsTimeRule ==
    op = "tuple" => ((result.kind = "Some") <=> InTimeLanguage(input))

\* C10: the millisecond handed to LocalTime::hms_ms is the number the fraction
\* digits denote, whatever its 1 to 9 digits.
C10_MillisecondAsWritten ==
    /\ (op = "time_parts" /\ arg.frac >= 0 /\ Len(handed) > 0) =>
           handed[1].millisecond = arg.frac
    /\ (op = "zoned_parts" /\ arg.time.frac >= 0 /\ Len(handed) > 0) =>
           handed[1].millisecond = arg.time.frac
====
